---- MODULE Spec2Model ----
(***************************************************************************)
(* Model of the tick orchestrator of the Dig Dug server (src/game.py):     *)
(* class Rope (shoot, hit) and class Game (start, stop, quit, keypress,    *)
(* update_digdug, kill_digdug, collision, next_frame).                     *)
(*                                                                         *)
(* characters.py and mapa.py are imported by src/game.py but are not part  *)
(* of the sources at hand; DigDug, the enemies, Rock and Map are modelled  *)
(* from their description in spec.md (sections 3, 4.4, 4.5, 6) and from    *)
(* the way src/game.py and src/viewer.py use them.                         *)
(***************************************************************************)
EXTENDS Integers, Sequences, FiniteSets, TLC

\* ------------------------------------------------------------------ bounds
\* Width of the terrain the model plays on.
MapWidth == 5
\* The timeout the Game is constructed with (number of ticks of a match).
Timeout == 3
\* The number of lives the Game is constructed with.
InitialLives == 2
\* The number of running ticks a behaviour of the model goes through, over
\* all its matches.
MaxTicks == 4

\* --------------------------------------------------------- program constants
INITIAL_SCORE == 0
MAX_LEN_ROPE == 3
ROCK_KILL_POINTS == 1000
\* LEVEL_ENEMIES[1] has three entries: two Fygar and one Pooka.
LEVEL_ENEMIES == <<"Fygar", "Fygar", "Pooka">>

\* Direction values as the viewer reads them from the snapshot:
\* 0 north, 1 west, 2 south, 3 east.
NORTH == 0
WEST == 1
SOUTH == 2
EAST == 3
Directions == {NORTH, WEST, SOUTH, EAST}
\* Python's None, where a rope has no direction.
None == -1

\* Python truthiness of a rope direction: None and the integer 0 are false.
Truthy(d) == d # None /\ d # 0

\* ------------------------------------------------------------------ terrain
\* The terrain of the model: a tunnel of MapWidth cells at depth 1 and, above
\* its second cell, a shaft of one cell in which the rock of the level hangs.
\* The player spawns at the west end of the tunnel, the enemy of the level one
\* cell from its east end.
ver_tiles == 2
Cells == ((0 .. MapWidth - 1) \X {1}) \cup {<<1, 0>>}
digdug_spawn == <<0, 1>>
enemies_spawn == << <<MapWidth - 2, 1>> >>
rock_seeds == << <<1, 0>> >>
VITAL_SPACE == 2

Step(pos, d) ==
    CASE d = NORTH -> <<pos[1], pos[2] - 1>>
      [] d = SOUTH -> <<pos[1], pos[2] + 1>>
      [] d = WEST  -> <<pos[1] - 1, pos[2]>>
      [] d = EAST  -> <<pos[1] + 1, pos[2]>>
      [] OTHER     -> pos

\* Map.calc_pos: one step from pos in direction d; a blocked step returns pos.
\* Every cell of the terrain of the model is dug, so only its border blocks a
\* step, with or without traverse.
calc_pos(pos, d, traverse) ==
    IF Step(pos, d) \in Cells THEN Step(pos, d) ELSE pos

InSeq(x, s) == \E i \in 1 .. Len(s) : s[i] = x

Min(a, b) == IF a < b THEN a ELSE b

\* ------------------------------------------------------------------ keys
\* A key is a Python string, modelled as a sequence of characters.
KeysValid == { <<"w">>, <<"a">>, <<"s">>, <<"d">>, <<"A">>, <<"B">>, <<>> }
KeysOther == { <<"x">>, <<"s", "d">>, <<"A", "B">> }
Keys == KeysValid \cup KeysOther

\* Python's `a in b` for strings: a is a contiguous part of b.
StrIn(a, b) ==
    \E i \in 0 .. Len(b) - Len(a) :
        \A j \in 1 .. Len(a) : b[i + j] = a[j]

UpperChars == {"A", "B"}
\* str.isupper(): at least one cased character and none of them lowercase.
\* Every character of the keys of the model is a cased letter.
isupper(k) == Len(k) > 0 /\ \A i \in 1 .. Len(k) : k[i] \in UpperChars

key2direction(key) ==
    CASE key = <<"w">> -> NORTH
      [] key = <<"a">> -> WEST
      [] key = <<"s">> -> SOUTH
      [] key = <<"d">> -> EAST
      [] OTHER -> None

\* ------------------------------------------------------------------ characters
\* Enemy.kill(rock): the enemy is dead, and remembers that a rock did it.
EnemyKill(e, byRock) == [e EXCEPT !.alive = FALSE, !.rock = byRock]

\* Enemy.respawn(): back to its own spawn point.
EnemyRespawn(e) == [e EXCEPT !.pos = enemies_spawn[e.id]]

\* Tiered value of a kill at depth y: the shallower, the higher.
TierPoints(y) == 100 * (ver_tiles - y)

\* Enemy.points(ver_tiles): the flat bonus for a rock, else the tiered value.
Points(e) == IF e.rock THEN ROCK_KILL_POINTS ELSE TierPoints(e.pos[2])

\* Enemy.move: the enemy steps (or is blocked), stays, dies or leaves through
\* an exit, as its own movement code decides: choice c.
EnemyMoves ==
    [kind : {"step"}, d : Directions] \cup [kind : {"stay", "die", "exit"}, d : {None}]
EnemyMove(e, c) ==
    CASE c.kind = "stay" -> e
      [] c.kind = "die"  -> [e EXCEPT !.alive = FALSE]
      [] c.kind = "exit" -> [e EXCEPT !.exit = TRUE]
      [] OTHER           -> [e EXCEPT !.pos = calc_pos(e.pos, c.d, TRUE)]

\* Rock.move: the rock stays or falls one cell.
RockMove(r, falls) ==
    IF falls THEN [r EXCEPT !.pos = calc_pos(r.pos, SOUTH, FALSE)] ELSE r

\* DigDug.kill(): one life less.
DigDugKill(d) == [d EXCEPT !.lives = d.lives - 1]

\* DigDug.respawn(): back to the spawn point of the terrain.
DigDugRespawn(d) == [d EXCEPT !.pos = digdug_spawn]

\* DigDug.move(map, direction, enemies, rocks): no direction, no move.
DigDugMove(d, direction) ==
    IF direction = None THEN d
    ELSE [d EXCEPT !.pos = calc_pos(d.pos, direction, TRUE),
                   !.direction = direction]

\* math.dist(a, b) < VITAL_SPACE, on squares.
InVitalSpace(a, b) ==
    (a[1] - b[1]) * (a[1] - b[1]) + (a[2] - b[2]) * (a[2] - b[2])
        < VITAL_SPACE * VITAL_SPACE

\* ------------------------------------------------------------------ Rope
\* Rope.__init__
NewRope == [pos |-> <<>>, dir |-> None]

\* Rope.shoot without its last two lines: the rope is never cut at the cap.
shoot_uncapped(r, pos, direction) ==
    IF Truthy(r.dir) /\ direction # r.dir
    THEN [pos |-> <<>>, dir |-> None]
    ELSE LET new_pos == IF Len(r.pos) > 0
                        THEN calc_pos(r.pos[Len(r.pos)], direction, FALSE)
                        ELSE calc_pos(pos, direction, FALSE)
         IN  IF InSeq(new_pos, r.pos)
             THEN [pos |-> <<>>, dir |-> None]
             ELSE [pos |-> Append(r.pos, new_pos), dir |-> direction]

\* Rope.shoot stepping from the player every time, never from the rope's tip.
shoot_from_player(r, pos, direction) ==
    IF Truthy(r.dir) /\ direction # r.dir
    THEN [pos |-> <<>>, dir |-> None]
    ELSE LET new_pos == calc_pos(pos, direction, FALSE)
         IN  IF InSeq(new_pos, r.pos)
             THEN [pos |-> <<>>, dir |-> None]
             ELSE LET appended == Append(r.pos, new_pos)
                  IN  [pos |-> IF Len(appended) > MAX_LEN_ROPE
                               THEN <<>>
                               ELSE appended,
                       dir |-> direction]

\* Rope.shoot(pos, direction)
shoot(r, pos, direction) ==
    IF Truthy(r.dir) /\ direction # r.dir
    THEN [pos |-> <<>>, dir |-> None]
    ELSE LET new_pos == IF Len(r.pos) > 0
                        THEN calc_pos(r.pos[Len(r.pos)], direction, FALSE)
                        ELSE calc_pos(pos, direction, FALSE)
         IN  IF InSeq(new_pos, r.pos)
             THEN [pos |-> <<>>, dir |-> None]
             ELSE LET appended == Append(r.pos, new_pos)
                  IN  [pos |-> IF Len(appended) > MAX_LEN_ROPE
                               THEN <<>>
                               ELSE appended,
                       dir |-> direction]

\* The index of the first enemy Rope.hit finds on the rope, 0 if none.
FirstHit(r, enemies) ==
    IF \E i \in 1 .. Len(enemies) : InSeq(enemies[i].pos, r.pos)
    THEN CHOOSE i \in 1 .. Len(enemies) :
            /\ InSeq(enemies[i].pos, r.pos)
            /\ \A j \in 1 .. i - 1 : ~InSeq(enemies[j].pos, r.pos)
    ELSE 0

\* Rope.hit(enemies): the enemies after the call; the call returns True
\* exactly when FirstHit is not 0.
hit(r, enemies) ==
    LET i == FirstHit(r, enemies)
    IN  IF i = 0 THEN enemies
        ELSE [enemies EXCEPT ![i] = EnemyKill(enemies[i], FALSE)]

\* ------------------------------------------------------------------ Game
\* The state of a Game object, with what the tick in progress has done so far:
\*   credits[id]  how many times the points of enemy id were added to the score
\*   kills        one record per call of kill_digdug in this tick
\*   shot         the call of Rope.shoot of this tick, if any
\*   hitret       what Rope.hit returned in this tick
\*   ret          what the latest call returned: the snapshot of a tick or None
\*   ticks        the number of running ticks so far
\*   race         where a tick taken statement by statement stands, and the
\*                buffer as each of its reads and its clear found it
\*   held         a snapshot the caller keeps: as it was returned, as it
\*                reads now, and whether its list of cells is still the rope's
VARIABLES running, score, step, total_steps, digdug, enemies, rocks, rope,
          lastkeypress, credits, kills, shot, hitret, ret, ticks, race,
          held

vars == <<running, score, step, total_steps, digdug, enemies, rocks, rope,
          lastkeypress, credits, kills, shot, hitret, ret, ticks, race,
          held>>

NoShot == [called |-> FALSE, before |-> NewRope, direction |-> None,
           after |-> NewRope]

\* The Game as one record, for the methods to pass along.
Self ==
    [running |-> running, score |-> score, step |-> step,
     total_steps |-> total_steps, digdug |-> digdug, enemies |-> enemies,
     rocks |-> rocks, rope |-> rope, lastkeypress |-> lastkeypress,
     credits |-> credits, kills |-> <<>>, shot |-> NoShot, hitret |-> FALSE]

\* Game.stop()
stop(g) ==
    [g EXCEPT !.total_steps = g.total_steps + g.step, !.running = FALSE]

\* The enemies of a level: LEVEL_ENEMIES[level] zipped with map.enemies_spawn.
LevelEnemies ==
    [i \in 1 .. Min(Len(LEVEL_ENEMIES), Len(enemies_spawn)) |->
        [id |-> i, name |-> LEVEL_ENEMIES[i], pos |-> enemies_spawn[i],
         alive |-> TRUE, exit |-> FALSE, rock |-> FALSE]]

LevelRocks == [i \in 1 .. Len(rock_seeds) |-> [id |-> i, pos |-> rock_seeds[i]]]

\* Game.next_level(level)
next_level(g) ==
    [g EXCEPT !.digdug = DigDugRespawn(g.digdug),
              !.total_steps = g.total_steps + g.step,
              !.step = 0,
              !.lastkeypress = <<>>,
              !.enemies = LevelEnemies,
              !.rocks = LevelRocks,
              !.credits = [i \in DOMAIN LevelEnemies |-> 0]]

\* DigDug(pos, lives): a new player, looking east.
NewDigDug(pos, lives) == [pos |-> pos, lives |-> lives, direction |-> EAST]

\* Game.start(player_name)
start(g) ==
    next_level([g EXCEPT !.running = TRUE,
                         !.total_steps = 0,
                         !.score = INITIAL_SCORE,
                         !.digdug = NewDigDug(digdug_spawn, InitialLives)])

\* The loop of kill_digdug over the enemies: campers near the spawn respawn.
RespawnCampers(es, pos) ==
    [i \in DOMAIN es |->
        IF InVitalSpace(pos, es[i].pos) THEN EnemyRespawn(es[i]) ELSE es[i]]

\* The record kill_digdug leaves of one call: the game before, g, and after, g1.
KillRecord(g, g1, by) ==
    [lives_before |-> g.digdug.lives, lives_after |-> g1.digdug.lives,
     running_before |-> g.running, running_after |-> g1.running,
     total_before |-> g.total_steps, total_after |-> g1.total_steps,
     step |-> g.step, pos_after |-> g1.digdug.pos, by |-> by,
     rocks |-> g1.rocks]

\* Game.kill_digdug with `lives >= 0` for `lives > 0`: the last life respawns.
kill_digdug_respawns_at_zero(g, by) ==
    LET d1 == DigDugKill(g.digdug)
        g1 == IF d1.lives >= 0
              THEN [g EXCEPT !.digdug = DigDugRespawn(d1),
                             !.enemies = RespawnCampers(g.enemies, digdug_spawn)]
              ELSE stop([g EXCEPT !.digdug = d1])
    IN  [g1 EXCEPT !.kills = Append(g.kills, KillRecord(g, g1, by))]

\* Game.kill_digdug(); by is who the caller found on the player ("enemy" or
\* "rock") and goes to the record of the call only.
kill_digdug(g, by) ==
    LET d1 == DigDugKill(g.digdug)
        g1 == IF d1.lives > 0
              THEN [g EXCEPT !.digdug = DigDugRespawn(d1),
                             !.enemies = RespawnCampers(g.enemies, digdug_spawn)]
              ELSE stop([g EXCEPT !.digdug = d1])
    IN  [g1 EXCEPT !.kills = Append(g.kills, KillRecord(g, g1, by))]

\* The first loop of Game.collision(), from enemy i on.
RECURSIVE CollideEnemies(_, _)
CollideEnemies(g, i) ==
    IF i > Len(g.enemies) THEN g
    ELSE IF g.enemies[i].pos = g.digdug.pos
         THEN LET g1 == kill_digdug(g, "enemy")
              IN  CollideEnemies(
                    [g1 EXCEPT !.enemies[i] = EnemyRespawn(g1.enemies[i])], i + 1)
         ELSE CollideEnemies(g, i + 1)

\* The inner loop of Game.collision() for rock r, from enemy i on.
RECURSIVE CrushEnemies(_, _, _)
CrushEnemies(g, r, i) ==
    IF i > Len(g.enemies) THEN g
    ELSE IF r.pos = g.enemies[i].pos
         THEN LET e == EnemyKill(g.enemies[i], TRUE)
              IN  CrushEnemies(
                    [g EXCEPT !.enemies[i] = e,
                              !.score = g.score + Points(e),
                              !.credits[e.id] = g.credits[e.id] + 1], r, i + 1)
         ELSE CrushEnemies(g, r, i + 1)

\* The second loop of Game.collision(), from rock j on.
RECURSIVE CollideRocks(_, _)
CollideRocks(g, j) ==
    IF j > Len(g.rocks) THEN g
    ELSE LET r  == g.rocks[j]
             g1 == IF r.pos = g.digdug.pos THEN kill_digdug(g, "rock") ELSE g
         IN  CollideRocks(CrushEnemies(g1, r, 1), j + 1)

\* Game.collision()
collision(g) == CollideRocks(CollideEnemies(g, 1), 1)

\* The record ParseAction leaves of its call of Rope.shoot.
ShotRecord(g, r1) ==
    [called |-> TRUE, before |-> g.rope, direction |-> g.digdug.direction,
     after |-> r1]

\* ParseAction without `self._rope = Rope(self.map)`: a hit keeps the rope.
ParseAction_keeps_rope(g) ==
    IF StrIn(g.lastkeypress, <<"A", "B">>)
    THEN LET r1 == shoot(g.rope, g.digdug.pos, g.digdug.direction)
         IN  [g EXCEPT !.rope = r1,
                       !.enemies = hit(r1, g.enemies),
                       !.hitret = FirstHit(r1, g.enemies) # 0,
                       !.shot = ShotRecord(g, r1)]
    ELSE g

\* The branch of update_digdug for an upper-case key.
ParseAction(g) ==
    IF StrIn(g.lastkeypress, <<"A", "B">>)
    THEN LET r1 == shoot(g.rope, g.digdug.pos, g.digdug.direction)
             h  == FirstHit(r1, g.enemies) # 0
         IN  [g EXCEPT !.rope = IF h THEN NewRope ELSE r1,
                       !.enemies = hit(r1, g.enemies),
                       !.hitret = h,
                       !.shot = ShotRecord(g, r1)]
    ELSE g

\* ParseMove without `self._rope = Rope(self.map)`: a move keeps the rope.
ParseMove_keeps_rope(g) ==
    [g EXCEPT !.digdug = DigDugMove(g.digdug, key2direction(g.lastkeypress))]

\* The branch of update_digdug for any other key.
ParseMove(g) ==
    LET letgo == StrIn(g.lastkeypress, <<"w", "a", "s", "d">>)
                    /\ g.lastkeypress # <<>>
    IN  [g EXCEPT !.rope = IF letgo THEN NewRope ELSE g.rope,
                  !.digdug = DigDugMove(g.digdug, key2direction(g.lastkeypress))]

\* Game.update_digdug without its `finally`: the buffer is left as it is.
update_digdug_keeps_key(g) ==
    LET valid == StrIn(g.lastkeypress, <<"w", "a", "s", "d", "A", "B">>)
                    \/ g.lastkeypress = <<>>
        g1 == IF ~valid THEN g
              ELSE IF isupper(g.lastkeypress) THEN ParseAction(g)
              ELSE ParseMove(g)
    IN  IF Len(g1.enemies) < 0 THEN next_level(g1) ELSE g1

\* Game.update_digdug()
update_digdug(g) ==
    LET valid == StrIn(g.lastkeypress, <<"w", "a", "s", "d", "A", "B">>)
                    \/ g.lastkeypress = <<>>
        g1 == IF ~valid THEN g
              ELSE IF isupper(g.lastkeypress) THEN ParseAction(g)
              ELSE ParseMove(g)
        g2 == [g1 EXCEPT !.lastkeypress = <<>>]
    IN  IF Len(g2.enemies) < 0 THEN next_level(g2) ELSE g2

\* sum([e.points(...) for e in enemies if not e.alive]), from enemy i on.
RECURSIVE DeadPoints(_, _)
DeadPoints(es, i) ==
    IF i > Len(es) THEN 0
    ELSE (IF es[i].alive THEN 0 ELSE Points(es[i])) + DeadPoints(es, i + 1)

Kept(e) == e.alive /\ ~e.exit

\* The snapshot next_frame builds.
Snapshot(g) ==
    LET base == [level |-> 1, step |-> g.step, timeout |-> Timeout,
                 score |-> g.score, lives |-> g.digdug.lives,
                 digdug |-> g.digdug.pos,
                 enemies |-> [i \in DOMAIN g.enemies |->
                                [name |-> g.enemies[i].name,
                                 id |-> g.enemies[i].id,
                                 pos |-> g.enemies[i].pos]],
                 rocks |-> g.rocks]
    IN  IF g.rope.pos # <<>>
        THEN base @@ ("rope" :> [dir |-> g.rope.dir, pos |-> g.rope.pos])
        ELSE base

\* The moves of enemy e that end differently, one choice for each.
DistinctMoves(e) ==
    { CHOOSE c \in EnemyMoves : EnemyMove(e, c) = o :
        o \in { EnemyMove(e, c) : c \in EnemyMoves } }

\* The loop of next_frame over the enemies: every enemy alive moves.
\* em[i] is what the movement code of the i-th enemy decides.
MoveEnemies(es, em) ==
    [i \in DOMAIN es |-> IF es[i].alive THEN EnemyMove(es[i], em[i]) ELSE es[i]]

\* The loop of next_frame over the rocks; rm[j] is whether rock j falls.
MoveRocks(rs, rm) == [j \in DOMAIN rs |-> RockMove(rs[j], rm[j])]

\* The score and the filter of next_frame with `=` for `+=`: the score is
\* the points of the enemies that died in this tick.
ScoreAndFilter_assigns_score(g) ==
    [g EXCEPT !.score = DeadPoints(g.enemies, 1),
              !.credits = [id \in DOMAIN g.credits |->
                    IF \E i \in DOMAIN g.enemies :
                            g.enemies[i].id = id /\ ~g.enemies[i].alive
                    THEN g.credits[id] + 1 ELSE g.credits[id]],
              !.enemies = SelectSeq(g.enemies, Kept)]

\* The score and the filter of next_frame: the points of every dead enemy
\* are added, then the dead and the exited enemies leave the collection.
ScoreAndFilter(g) ==
    [g EXCEPT !.score = g.score + DeadPoints(g.enemies, 1),
              !.credits = [id \in DOMAIN g.credits |->
                    IF \E i \in DOMAIN g.enemies :
                            g.enemies[i].id = id /\ ~g.enemies[i].alive
                    THEN g.credits[id] + 1 ELSE g.credits[id]],
              !.enemies = SelectSeq(g.enemies, Kept)]

\* Game.next_frame returning right after the stop() of the timeout.
next_frame_ends_at_timeout(g, em, rm) ==
    LET g1 == [g EXCEPT !.step = g.step + 1]
        g3 == update_digdug(g1)
        g4 == [g3 EXCEPT !.enemies = MoveEnemies(g3.enemies, em)]
        g5 == [g4 EXCEPT !.rocks = MoveRocks(g4.rocks, rm)]
    IN  IF g1.step = Timeout THEN stop(g1) ELSE collision(ScoreAndFilter(g5))

\* Game.next_frame() of a running game.
next_frame(g, em, rm) ==
    LET g1 == [g EXCEPT !.step = g.step + 1]
        g2 == IF g1.step = Timeout THEN stop(g1) ELSE g1
        g3 == update_digdug(g2)
        g4 == [g3 EXCEPT !.enemies = MoveEnemies(g3.enemies, em)]
        g5 == [g4 EXCEPT !.rocks = MoveRocks(g4.rocks, rm)]
    IN  collision(ScoreAndFilter(g5))

\* ------------------------------------------------------------------ actions
NoState == [none |-> TRUE]

\* No read of the buffer yet, and no tick in progress.
NoKey == <<"none">>
NoRace == [pc |-> "none", checked |-> NoKey, acted |-> NoKey, erased |-> NoKey]

\* No snapshot held yet.
NoHeld == [returned |-> NoState, now |-> NoState, shared |-> FALSE]

Init ==
    /\ running = FALSE
    /\ score = 0
    /\ step = 0
    /\ total_steps = 0
    /\ digdug = NewDigDug(digdug_spawn, InitialLives)
    /\ enemies = <<>>
    /\ rocks = <<>>
    /\ rope = NewRope
    /\ lastkeypress = <<>>
    /\ credits = <<>>
    /\ kills = <<>>
    /\ shot = NoShot
    /\ hitret = FALSE
    /\ ret = NoState
    /\ ticks = 0
    /\ race = NoRace
    /\ held = NoHeld

Install(g) ==
    /\ running' = g.running
    /\ score' = g.score
    /\ step' = g.step
    /\ total_steps' = g.total_steps
    /\ digdug' = g.digdug
    /\ enemies' = g.enemies
    /\ rocks' = g.rocks
    /\ rope' = g.rope
    /\ lastkeypress' = g.lastkeypress
    /\ credits' = g.credits
    /\ kills' = g.kills
    /\ shot' = g.shot
    /\ hitret' = g.hitret

\* Game.start(), called for a game that is not running.
Start ==
    /\ ~running
    /\ Install(start(Self))
    /\ ret' = NoState
    /\ UNCHANGED <<ticks, race, held>>

\* Game.quit()
Quit ==
    /\ running' = FALSE
    /\ ret' = NoState
    /\ UNCHANGED <<score, step, total_steps, digdug, enemies, rocks, rope,
                   lastkeypress, credits, kills, shot, hitret, ticks, race,
                   held>>

\* Game.keypress(key)
Keypress ==
    /\ \E k \in Keys : lastkeypress' = k
    /\ ret' = NoState
    /\ UNCHANGED <<running, score, step, total_steps, digdug, enemies, rocks,
                   rope, credits, kills, shot, hitret, ticks, race,
                   held>>

\* The choices the movement code of the enemies can make in this tick.
EnemyChoices ==
    { em \in [DOMAIN enemies -> EnemyMoves] :
        \A i \in DOMAIN enemies : em[i] \in DistinctMoves(enemies[i]) }

\* Game.next_frame() while the game is running: one tick.
Tick ==
    /\ running
    /\ ticks < MaxTicks
    /\ \E em \in EnemyChoices, rm \in [DOMAIN rocks -> BOOLEAN] :
          LET g == next_frame(Self, em, rm)
          IN  /\ Install(g)
              /\ ret' = Snapshot(g)
    /\ ticks' = ticks + 1
    /\ UNCHANGED <<race, held>>

\* Game.next_frame() without `if not self._running: return`: a game that is
\* not running ticks all the same.
Idle_without_guard ==
    /\ ~running
    /\ \E em \in EnemyChoices, rm \in [DOMAIN rocks -> BOOLEAN] :
          LET g == next_frame(Self, em, rm)
          IN  /\ Install(g)
              /\ ret' = Snapshot(g)
    /\ UNCHANGED <<ticks, race, held>>

\* Game.next_frame() while the game is not running: a log line, and None.
Idle ==
    /\ ~running
    /\ ret' = NoState
    /\ UNCHANGED <<running, score, step, total_steps, digdug, enemies, rocks,
                   rope, lastkeypress, credits, kills, shot, hitret, ticks,
                   race, held>>

Next == Start \/ Quit \/ Keypress \/ Tick \/ Idle

Spec == Init /\ [][Next]_vars

\* ------------------------------------------- the tick, statement by statement
\* Game.keypress may be called from another execution context while a tick is
\* in progress. Here a tick is taken one statement at a time, each statement
\* that reads or writes the buffer a step of its own, and keypress is free to
\* run between any two of them.

\* The number of ticks taken statement by statement.
RaceTicks == 1

\* The part of next_frame after the `finally` of update_digdug.
frame_tail(g, em, rm) ==
    LET g3 == IF Len(g.enemies) < 0 THEN next_level(g) ELSE g
        g4 == [g3 EXCEPT !.enemies = MoveEnemies(g3.enemies, em)]
        g5 == [g4 EXCEPT !.rocks = MoveRocks(g4.rocks, rm)]
    IN  collision(ScoreAndFilter(g5))

\* The Game in the middle of a tick: what the tick has done so far is kept.
SelfInTick == [Self EXCEPT !.shot = shot, !.hitret = hitret]

\* next_frame up to the call of update_digdug: the step count and the timeout.
TickBegin ==
    /\ running
    /\ race.pc = "none"
    /\ ticks < RaceTicks
    /\ LET g1 == [Self EXCEPT !.step = step + 1]
       IN  Install(IF g1.step = Timeout THEN stop(g1) ELSE g1)
    /\ race' = [NoRace EXCEPT !.pc = "assert"]
    /\ ret' = NoState
    /\ UNCHANGED <<ticks, held>>

\* `assert self._lastkeypress in "wasdAB" or self._lastkeypress == ""`
TickAssert ==
    /\ race.pc = "assert"
    /\ LET valid == StrIn(lastkeypress, <<"w", "a", "s", "d", "A", "B">>)
                        \/ lastkeypress = <<>>
       IN  race' = [race EXCEPT !.checked = lastkeypress,
                                !.pc = IF valid THEN "isupper" ELSE "finally"]
    /\ UNCHANGED <<running, score, step, total_steps, digdug, enemies, rocks,
                   rope, lastkeypress, credits, kills, shot, hitret, ret, ticks,
                   held>>

\* `if self._lastkeypress.isupper():`
TickIsUpper ==
    /\ race.pc = "isupper"
    /\ race' = [race EXCEPT !.pc = IF isupper(lastkeypress)
                                   THEN "action" ELSE "letgo"]
    /\ UNCHANGED <<running, score, step, total_steps, digdug, enemies, rocks,
                   rope, lastkeypress, credits, kills, shot, hitret, ret, ticks,
                   held>>

\* `if self._lastkeypress in "AB":` and the shot it guards.
TickAction ==
    /\ race.pc = "action"
    /\ Install(ParseAction(SelfInTick))
    /\ race' = [race EXCEPT !.acted = lastkeypress, !.pc = "finally"]
    /\ UNCHANGED <<ret, ticks, held>>

\* `if self._lastkeypress in "wasd" and self._lastkeypress != "":` and the
\* new rope it guards.
TickLetGo ==
    /\ race.pc = "letgo"
    /\ rope' = IF StrIn(lastkeypress, <<"w", "a", "s", "d">>)
                    /\ lastkeypress # <<>>
               THEN NewRope ELSE rope
    /\ race' = [race EXCEPT !.pc = "move"]
    /\ UNCHANGED <<running, score, step, total_steps, digdug, enemies, rocks,
                   lastkeypress, credits, kills, shot, hitret, ret, ticks,
                   held>>

\* `self._digdug.move(self.map, key2direction(self._lastkeypress), ...)`
TickMove ==
    /\ race.pc = "move"
    /\ digdug' = DigDugMove(digdug, key2direction(lastkeypress))
    /\ race' = [race EXCEPT !.acted = lastkeypress, !.pc = "finally"]
    /\ UNCHANGED <<running, score, step, total_steps, enemies, rocks, rope,
                   lastkeypress, credits, kills, shot, hitret, ret, ticks,
                   held>>

\* `finally: self._lastkeypress = ""`
TickFinally ==
    /\ race.pc = "finally"
    /\ lastkeypress' = <<>>
    /\ race' = [race EXCEPT !.erased = lastkeypress, !.pc = "tail"]
    /\ UNCHANGED <<running, score, step, total_steps, digdug, enemies, rocks,
                   rope, credits, kills, shot, hitret, ret, ticks,
                   held>>

\* The rest of next_frame, to the snapshot it returns.
TickTail ==
    /\ race.pc = "tail"
    /\ \E em \in EnemyChoices, rm \in [DOMAIN rocks -> BOOLEAN] :
          LET g == frame_tail(SelfInTick, em, rm)
          IN  /\ Install(g)
              /\ ret' = Snapshot(g)
    /\ ticks' = ticks + 1
    /\ race' = NoRace
    /\ UNCHANGED held

\* start(), quit() and a next_frame that finds the game not running are
\* called between ticks; keypress at any time.
NextRace ==
    \/ (race.pc = "none" /\ Start)
    \/ (race.pc = "none" /\ Quit)
    \/ (race.pc = "none" /\ Idle)
    \/ Keypress
    \/ TickBegin
    \/ TickAssert
    \/ TickIsUpper
    \/ TickAction
    \/ TickLetGo
    \/ TickMove
    \/ TickFinally
    \/ TickTail

SpecRace == Init /\ [][NextRace]_vars

\* --------------------------------------------------- the snapshot, once held
\* The snapshot next_frame returns has, under "rope", the very list that is
\* the rope's self._pos: Rope.shoot appends to that list in place, and only
\* its resets, a hit and a move leave it for a new one. Here the caller keeps
\* a snapshot, and the model follows what that snapshot reads later.

\* The number of ticks taken while a snapshot is held.
HeldTicks == 2

\* The content, after Rope.shoot(pos, direction), of the list that was
\* self._pos when it was called.
shoot_list(r, pos, direction) ==
    IF Truthy(r.dir) /\ direction # r.dir
    THEN r.pos
    ELSE LET new_pos == IF Len(r.pos) > 0
                        THEN calc_pos(r.pos[Len(r.pos)], direction, FALSE)
                        ELSE calc_pos(pos, direction, FALSE)
         IN  IF InSeq(new_pos, r.pos) THEN r.pos ELSE Append(r.pos, new_pos)

\* What the caller holds after a tick that found the rope r and the player d
\* and left the game g: a held snapshot whose list is still the rope's reads
\* what the tick leaves in that list; once the rope has left the list for a
\* new one, the caller holds the snapshot of this tick.
hold(h, g, r, d) ==
    LET list == IF g.shot.called
                THEN shoot_list(r, d.pos, d.direction)
                ELSE r.pos
    IN  IF h.shared
        THEN [h EXCEPT !.now.rope.pos = list,
                       !.shared = ~g.hitret /\ g.rope.pos = list]
        ELSE [returned |-> Snapshot(g), now |-> Snapshot(g),
              shared |-> g.rope.pos # <<>>]

\* Game.next_frame() while the game is running, its snapshot held by the
\* caller.
TickHeld ==
    /\ running
    /\ ticks < HeldTicks
    /\ \E em \in EnemyChoices, rm \in [DOMAIN rocks -> BOOLEAN] :
          LET g == next_frame(Self, em, rm)
          IN  /\ Install(g)
              /\ ret' = Snapshot(g)
              /\ held' = hold(held, g, rope, digdug)
    /\ ticks' = ticks + 1
    /\ UNCHANGED race

NextHeld == Start \/ Quit \/ Keypress \/ TickHeld \/ Idle

SpecHeld == Init /\ [][NextHeld]_vars

\* ------------------------------------------------------------------ claims
\* A step of the model that is a running tick.
TickStep == ticks' = ticks + 1

\* The keys of the four movement symbols and of the two weapon triggers.
MoveKeys == { <<"w">>, <<"a">>, <<"s">>, <<"d">> }
TriggerKeys == { <<"A">>, <<"B">> }

\* C1: the points of an enemy are added to the score at most once, whatever
\* killed it: no enemy is credited in two places or in two ticks.
C1_CreditedOnce == \A id \in DOMAIN credits : credits[id] <= 1

\* C2: after a running tick every enemy of the collection, and so of the
\* snapshot the tick returned, is alive and has not exited.
C2_EnemiesAliveAfterTick ==
    ret # NoState =>
        /\ Len(ret.enemies) = Len(enemies)
        /\ \A i \in DOMAIN enemies : enemies[i].alive /\ ~enemies[i].exit

\* C3: the player's lives are never negative.
C3_LivesNonNegative == digdug.lives >= 0

\* C4 as claimed: kill_digdug called with one life leaves no life and the match
\* over, the step count folded into the total; called with more lives it
\* leaves the match running, one life less and the player on the spawn point.
C4_KillDigdugOriginal ==
    \A i \in DOMAIN kills :
        /\ kills[i].lives_before = 1 =>
                /\ kills[i].lives_after = 0
                /\ ~kills[i].running_after
                /\ kills[i].total_after = kills[i].total_before + kills[i].step
        /\ kills[i].lives_before > 1 =>
                /\ kills[i].running_after
                /\ kills[i].lives_after = kills[i].lives_before - 1
                /\ kills[i].pos_after = digdug_spawn

\* C4 as amended: kill_digdug called with one life leaves no life and the match
\* over, the step count folded into the total; called with more lives it
\* leaves the running flag as it found it (a running match keeps running),
\* one life less and the player on the spawn point.
C4_KillDigdug ==
    \A i \in DOMAIN kills :
        /\ kills[i].lives_before = 1 =>
                /\ kills[i].lives_after = 0
                /\ ~kills[i].running_after
                /\ kills[i].total_after = kills[i].total_before + kills[i].step
        /\ kills[i].lives_before > 1 =>
                /\ kills[i].running_after = kills[i].running_before
                /\ kills[i].lives_after = kills[i].lives_before - 1
                /\ kills[i].pos_after = digdug_spawn

\* kill_digdug has taken the last life of a running match.
C4_Witness ==
    \E i \in DOMAIN kills :
        kills[i].lives_before = 1 /\ kills[i].running_before /\ ~running

\* C5: a call of Rope.shoot on a rope of 1 to 3 cells locked in direction d,
\* with another direction, leaves the rope empty, for each of the four d.
C5_DirectionChangeResets ==
    ( /\ shot.called
      /\ Len(shot.before.pos) \in 1 .. MAX_LEN_ROPE
      /\ shot.before.dir \in Directions
      /\ shot.direction # shot.before.dir )
    => shot.after.pos = <<>>

\* C6: the rope never has more than MAX_LEN_ROPE cells, neither between the
\* calls nor when Rope.shoot returns.
C6_RopeAtMostThree ==
    /\ Len(rope.pos) <= MAX_LEN_ROPE
    /\ Len(shot.after.pos) <= MAX_LEN_ROPE

\* Rope.shoot was called on a full rope and has retracted it.
C6_Witness ==
    /\ shot.called
    /\ Len(shot.before.pos) = MAX_LEN_ROPE
    /\ shot.after = [pos |-> <<>>, dir |-> shot.direction]

\* C7: after a tick in which Rope.hit returned true the rope is a new, empty
\* one and the snapshot has no "rope"; after any tick the snapshot has a
\* "rope", with the rope's direction and cells, exactly when the rope has cells.
C7_HitDiscardsRope ==
    /\ hitret => rope = NewRope
    /\ ret # NoState =>
        /\ ("rope" \in DOMAIN ret) <=> (rope.pos # <<>>)
        /\ "rope" \in DOMAIN ret => ret.rope = rope
        /\ hitret => "rope" \notin DOMAIN ret

\* A tick has returned its snapshot after Rope.hit found an enemy on the rope.
C7_Witness ==
    /\ ret # NoState
    /\ hitret
    /\ shot.after.pos # <<>>

\* The cell Rope.shoot would step to from the rope's tip is one of the rope's
\* cells already: the step is blocked, and shoot empties the rope.
TipBlocked ==
    /\ rope.pos # <<>>
    /\ InSeq(calc_pos(rope.pos[Len(rope.pos)], digdug.direction, FALSE), rope.pos)

\* Two ticks in a row have called Rope.shoot, the player facing the same way,
\* and Rope.hit found nobody either time; the step is the second tick.
TwoShots ==
    /\ TickStep
    /\ shot.called /\ ~hitret
    /\ shot'.called /\ ~hitret'
    /\ shot'.direction = shot.direction

\* C8 as claimed: the second of two such ticks leaves the rope one cell
\* longer than the first left it, as long as that is within the cap; and no
\* tick makes the rope more than one cell longer.
C8_GrowsByOneOriginal ==
    [][ /\ TickStep => Len(rope'.pos) <= Len(rope.pos) + 1
        /\ (TwoShots /\ Len(rope.pos) + 1 <= MAX_LEN_ROPE)
                => Len(rope'.pos) = Len(rope.pos) + 1 ]_vars

\* C8 as amended: the same, unless the step from the rope's tip is blocked.
C8_GrowsByOne ==
    [][ /\ TickStep => Len(rope'.pos) <= Len(rope.pos) + 1
        /\ (TwoShots /\ Len(rope.pos) + 1 <= MAX_LEN_ROPE /\ ~TipBlocked)
                => Len(rope'.pos) = Len(rope.pos) + 1 ]_vars

\* The first two ticks of the first match have each added a cell to the rope.
C8_Witness ==
    /\ ticks = 2 /\ step = 2
    /\ shot.called /\ ~hitret
    /\ Len(shot.before.pos) = 1
    /\ Len(rope.pos) = 2

\* C9: the tick that brings the step count to the timeout ends the match and
\* still runs to its end: the buffer is consumed, a trigger shoots, a movement
\* symbol turns the player, and the snapshot it returns shows the final state;
\* the step count never exceeds the timeout.
C9_TimeoutTick ==
    /\ [](step <= Timeout)
    /\ []((ret # NoState /\ step = Timeout) =>
            /\ ~running
            /\ ret.step = Timeout
            /\ ret.digdug = digdug.pos
            /\ ret.lives = digdug.lives
            /\ ret.score = score
            /\ ret.rocks = rocks
            /\ \A i \in DOMAIN enemies : ret.enemies[i].pos = enemies[i].pos)
    /\ [][(TickStep /\ step' = Timeout) =>
            /\ ~running'
            /\ ret' # NoState
            /\ lastkeypress' = <<>>
            /\ lastkeypress \in TriggerKeys => shot'.called
            /\ lastkeypress \in MoveKeys =>
                    digdug'.direction = key2direction(lastkeypress)]_vars

\* The timeout tick has returned its snapshot, with lives left.
C9_Witness ==
    /\ ret # NoState
    /\ step = Timeout
    /\ ~running
    /\ digdug.lives > 0

\* C10: when collision() finds the player on a rock, the tick takes exactly
\* one life, the rocks are as they were, and a player with lives left is on
\* the spawn point.
C10_RockCollision ==
    (ret # NoState /\ \E i \in DOMAIN kills : kills[i].by = "rock") =>
        /\ kills[1].lives_before - digdug.lives = 1
        /\ \A i \in DOMAIN kills : kills[i].rocks = rocks
        /\ digdug.lives > 0 => digdug.pos = digdug_spawn

\* A step that is not a call of start(): the match does not begin in it.
SameMatch == ~(~running /\ running')

\* C11: within one match the score never decreases: no step other than a
\* start() leaves a score smaller than the one it found.
C11_ScoreNeverDecreases == [][SameMatch => score' >= score]_vars

\* A tick has added the points of a dead enemy to the score.
C11_Witness == ret # NoState /\ score > INITIAL_SCORE

\* C12: a tick that finds a string other than the seven accepted symbols in
\* the buffer resolves it without any effect but the clearing of the buffer:
\* update_digdug leaves the rope, the player, the enemies, the rocks and the
\* score as they were, and the rope is the same at the end of the tick.
C12_InvalidKeyIgnored ==
    [][(TickStep /\ lastkeypress \notin KeysValid) =>
            LET g == update_digdug(Self)
            IN  /\ g.lastkeypress = <<>>
                /\ g.rope = rope
                /\ g.digdug = digdug
                /\ g.enemies = enemies
                /\ g.rocks = rocks
                /\ g.score = score
                /\ ~shot'.called
                /\ rope' = rope]_vars

\* C13: a running tick leaves the buffer empty, whatever it found there, and
\* a tick that follows a tick with no keypress in between acts on the empty
\* symbol: it does not shoot and does not turn the player.
C13_BufferCleared ==
    /\ [](ret # NoState => lastkeypress = <<>>)
    /\ [][TickStep => lastkeypress' = <<>>]_vars
    /\ [][(TickStep /\ ret # NoState) =>
            /\ ~shot'.called
            /\ digdug'.direction = digdug.direction]_vars

\* A tick has consumed a trigger: it has shot, and the buffer is empty.
C13_Witness == ret # NoState /\ shot.called /\ lastkeypress = <<>>

\* C14: a call of next_frame, of keypress or of quit for a game that is not
\* running returns no snapshot and leaves the step count, the total of steps,
\* the score, the player, the enemies, the rocks and the rope as they were:
\* nothing of a match that is over changes before start() is called.
C14_NotRunningNoOp ==
    [][(~running /\ ~running') =>
            /\ ret' = NoState
            /\ UNCHANGED <<step, total_steps, score, digdug, enemies, rocks,
                           rope>>]_vars

\* The match has ended at the timeout and next_frame has returned None since.
C14_Witness == ~running /\ step = Timeout /\ ticks > 0 /\ ret = NoState

\* C15: a running tick that finds the enemy collection empty calls next_level
\* in its input resolution, which starts the step count of the level anew.
C15_EmptyAdvancesLevel ==
    [][(TickStep /\ enemies = <<>>) => step' = 0]_vars

\* C16: with keypress free to run between any two statements of a tick, the
\* symbol the tick acts on is the symbol it validated, and the symbol its
\* clear of the buffer erases is the symbol it resolved: no key is lost to
\* the clear.
C16_AtomicReadAndClear ==
    /\ race.acted # NoKey => race.acted = race.checked
    /\ race.erased # NoKey => race.erased = race.checked

\* C17: a tick calls kill_digdug at most once, whatever is on the player's
\* cell, so the tick takes at most one life and ends the match at most once.
C17_KilledOncePerTick ==
    /\ Len(kills) <= 1
    /\ \A i \in DOMAIN kills : kills[i].lives_before - digdug.lives <= 1

\* C18: a call of Rope.hit that returns true has found an enemy that was
\* alive, the first of the collection on a cell of the rope, and has killed
\* it and no other; a call that returns false has killed nobody.
C18_HitKillsOneAlive ==
    [][TickStep =>
        LET r == shot'.after
            i == FirstHit(r, enemies)
            after == hit(r, enemies)
        IN  /\ hitret' =>
                /\ i # 0
                /\ enemies[i].alive /\ ~after[i].alive
                /\ \A j \in DOMAIN enemies : j # i => after[j] = enemies[j]
            /\ (shot'.called /\ ~hitret') => after = enemies]_vars

\* C19: a rope without cells has no direction.
C19_EmptyRopeIdle == rope.pos = <<>> => rope.dir = None

\* C20: a tick that finds a movement symbol in the buffer leaves a new, empty
\* rope, whatever the rope was; a tick that finds the buffer empty leaves the
\* cells and the direction of the rope as they were.
C20_MoveDropsRope ==
    [][ /\ (TickStep /\ lastkeypress \in MoveKeys) => rope' = NewRope
        /\ (TickStep /\ lastkeypress = <<>>) => rope' = rope ]_vars

\* A tick that did not shoot has ended with the rope out, as it found it.
C20_Witness == ret # NoState /\ ~shot.called /\ rope.pos # <<>>

\* C21: a snapshot next_frame has returned reads for ever what it read when
\* it was returned, the cells of its rope included.
C21_SnapshotNeverChanges == held.now = held.returned

\* C22: when a tick has ended the match through stop(), the total of steps is
\* the number of ticks of that match.
C22_TotalIsTicksOfMatch == (ret # NoState /\ ~running) => total_steps = step

\* C23: every start() leaves the step count at 0, the score at its initial
\* value, the lives at the configured count and the rope without cells and
\* without direction.
C23_StartIsFresh ==
    [][(~running /\ running') =>
            /\ step' = 0
            /\ score' = INITIAL_SCORE
            /\ digdug'.lives = InitialLives
            /\ rope'.pos = <<>>
            /\ rope'.dir = None]_vars

====
